---- MODULE Spec2Model ----
(***************************************************************************)
(* A model of the clone snapshotter (snapshotter/snapshotter.go): the      *)
(* wrapper's Prepare, its clone pipeline (stat, mounts, prepare, locate,   *)
(* clear, copy, rollback) and the inner snapshot store and filesystem it   *)
(* drives.  The inner store is the containerd native (bind mounts) or      *)
(* overlay (upperdir mounts) snapshotter the tests and the README name.    *)
(***************************************************************************)
EXTENDS Integers, Sequences, FiniteSets, TLC

VARIABLES
    storeType,   \* "bind" (native snapshotter) or "overlay": the inner store wrapped by New
    snaps,       \* inner store metadata: key -> snapshot record
    dirs,        \* filesystem: snapshot id -> the snapshot's directory tree
    nextId,      \* inner store's id allocator
    callerMap,   \* per request: the label map the caller handed to WithLabels
    req,         \* per request: the arguments of the Prepare call in flight / last made
    pc,          \* per request: position inside Prepare / clonePrepare
    loc,         \* per request: the locals of clonePrepare and copyWritableLayer
    result,      \* per request: what the last Prepare returned
    calls,       \* per request: the calls made on the inner store, in order, with their returns
    nOps         \* number of container filesystem operations performed so far

vars == <<storeType, snaps, dirs, nextId, callerMap, req, pc, loc, result, calls, nOps>>

----------------------------------------------------------------------------
(* Bounds *)

MaxIds == 3       \* snapshots the inner store ever allocates
MaxOps == 2       \* container filesystem operations (besides the layer unpack)
MaxOpts == 2      \* length of a caller's option sequence
MaxMounts == 2    \* length of a mount list given to the locator

----------------------------------------------------------------------------
(* Values *)

Keys == {"k1", "k2", "k3"}
KeyOrder == <<"k1", "k2", "k3">>
NoKey == ""                               \* the empty parent / absent key
Reqs == {1, 2}                            \* call slots: two calls can be in progress
Callers == {1}                            \* the slot a sequential caller uses
Ids == 1..MaxIds

\* const LabelCloneSource
LabelCloneSource == "containerd.io/snapshot/clone-source"
OtherLabel == "app"
LabelKeys == {LabelCloneSource, OtherLabel}
Absent == "<absent>"
NoLabels == [l \in LabelKeys |-> Absent]
HasLabel(m, l) == m[l] # Absent
DeleteLabel(m, l) == [m EXCEPT ![l] = Absent]

\* A directory tree: relative path -> entry.  "d/f" lives inside "d".
Paths == {"a", "d", "d/f"}
TopPaths == <<"a", "d">>                  \* lexical order, as ReadDir returns it
ChildPaths(p) == IF p = "d" THEN <<"d/f">> ELSE <<>>
ParentPath(p) == IF p = "d/f" THEN "d" ELSE "."

None == [kind |-> "none", data |-> ""]
File(c) == [kind |-> "file", data |-> c]
Symlink(t) == [kind |-> "symlink", data |-> t]
Dir == [kind |-> "dir", data |-> ""]
OpaqueDir == [kind |-> "dir", data |-> "opaque"]   \* overlay: xattr trusted.overlay.opaque=y
Whiteout == [kind |-> "whiteout", data |-> ""]     \* overlay: character device 0/0
EmptyTree == [p \in Paths |-> None]
LayerTree == [p \in Paths |-> IF p = "d" THEN Dir ELSE File("x")]
NoDir == [exists |-> FALSE, tree |-> EmptyTree]
DirOf(t) == [exists |-> TRUE, tree |-> t]

NoSnap == [exists |-> FALSE, id |-> 0, kind |-> "", parent |-> NoKey, labels |-> NoLabels]

\* Errors: kind is what errors.Is / errdefs recognise through the %w chain, msg the text.
NoErr == [kind |-> "ok", msg |-> <<>>]
Err(k, m) == [kind |-> k, msg |-> <<m>>]
IsErr(e) == e.kind # "ok"
\* fmt.Errorf("<prefix>: %w", err)
Wrap(prefix, e) == [kind |-> e.kind, msg |-> <<prefix>> \o e.msg]

----------------------------------------------------------------------------
(* Options (snapshots.Opt): functions that mutate a snapshots.Info.        *)
(* info.Labels is a Go map, a reference: WithLabels(m) makes info.Labels   *)
(* the caller's own map m, so a later delete(info.Labels, k) acts on m.    *)
(* st = [labels |-> "nil" | "caller", map |-> contents of the caller's     *)
(* map, applied |-> number of caller options run so far].                  *)

Opt(k) == [kind |-> k, inner |-> <<>>, label |-> ""]
OptKinds == {"withLabels", "noLabels", "fail"}
\* the option sequences a caller passes, up to MaxOpts long
OptSeqs == UNION {[1..n -> {Opt(k) : k \in OptKinds}] : n \in 0..MaxOpts}

InfoStart(m) == [labels |-> "nil", map |-> m, applied |-> 0]
\* info.Labels as a value: nil reads as the empty map
LabelsOf(st) == IF st.labels = "caller" THEN st.map ELSE NoLabels

RECURSIVE ApplyOpt(_, _), ApplyFrom(_, _, _)
\* for _, opt := range opts { if err := opt(info); err != nil { return err } }
ApplyFrom(opts, i, st) ==
    IF i > Len(opts) THEN [err |-> NoErr, st |-> st]
    ELSE LET r == ApplyOpt(opts[i], st)
         IN IF IsErr(r.err) THEN r ELSE ApplyFrom(opts, i + 1, r.st)

\* delete(info.Labels, label): a no-op on a nil map, otherwise it edits the referenced map
DeleteFromInfo(st, label) ==
    IF st.labels = "caller" THEN [st EXCEPT !.map = DeleteLabel(@, label)] ELSE st

ApplyOpt(o, st) ==
    CASE o.kind = "withLabels" ->
            [err |-> NoErr, st |-> [st EXCEPT !.labels = "caller", !.applied = @ + 1]]
      [] o.kind = "noLabels" ->
            [err |-> NoErr, st |-> [st EXCEPT !.labels = "nil", !.applied = @ + 1]]
      [] o.kind = "fail" ->
            [err |-> Err("opt-failed", "option failed"), st |-> [st EXCEPT !.applied = @ + 1]]
      [] o.kind = "withoutLabel" ->
            LET r == ApplyFrom(o.inner, 1, st)
            IN IF IsErr(r.err) THEN r
               ELSE [err |-> NoErr, st |-> DeleteFromInfo(r.st, o.label)]

ApplyOpts(opts, m) == ApplyFrom(opts, 1, InfoStart(m))

\* the options handed on as they came
withoutLabelKept(opts, label) == opts

\* withoutLabel(opts, label): one option that applies opts, then deletes label
withoutLabel(opts, label) == <<[kind |-> "withoutLabel", inner |-> opts, label |-> label]>>

----------------------------------------------------------------------------
(* Mounts (mount.Mount).  A path of a snapshot directory is its id; an     *)
(* option string is its prefix up to "=" and the rest.                     *)

MountOpt(pre, val) == [pre |-> pre, val |-> val]
BindMount(id) ==
    [Type |-> "bind", Source |-> id, Options |-> <<MountOpt("rbind", 0), MountOpt("rw", 0)>>]
DeviceMount(id) == [Type |-> "ext4", Source |-> id, Options |-> <<>>]
OverlayMount(id, parentId) ==
    [Type |-> "overlay", Source |-> 0,
     Options |-> <<MountOpt("workdir=", id), MountOpt("upperdir=", id),
                   MountOpt("lowerdir=", parentId)>>]

\* any option taken for one with the prefix
CutPrefixLoose(opt, prefix) == [val |-> opt.val, ok |-> TRUE]

\* strings.CutPrefix(opt, prefix)
CutPrefix(opt, prefix) == [val |-> opt.val, ok |-> opt.pre = prefix]

RECURSIVE FirstUpperdir(_, _)
FirstUpperdir(options, i) ==
    IF i > Len(options) THEN [val |-> 0, ok |-> FALSE]
    ELSE LET c == CutPrefix(options[i], "upperdir=")
         IN IF c.ok THEN c ELSE FirstUpperdir(options, i + 1)

\* joinMountTypes: the mount types, in list order
joinMountTypes(mounts) == [j \in 1..Len(mounts) |-> mounts[j].Type]

RECURSIVE GetWritableFrom(_, _)
GetWritableFrom(mounts, i) ==
    IF i > Len(mounts)
    THEN [dir |-> 0, err |-> [kind |-> "no-writable-dir",
                              msg |-> <<"no writable directory found in mounts">>
                                      \o joinMountTypes(mounts)]]
    ELSE LET m == mounts[i]
         IN CASE m.Type = "overlay" ->
                    LET u == FirstUpperdir(m.Options, 1)
                    IN IF u.ok THEN [dir |-> u.val, err |-> NoErr]
                       ELSE GetWritableFrom(mounts, i + 1)
              [] m.Type = "bind" -> [dir |-> m.Source, err |-> NoErr]
              [] OTHER -> GetWritableFrom(mounts, i + 1)

getWritableDir(mounts) == GetWritableFrom(mounts, 1)

----------------------------------------------------------------------------
(* The inner store (snapshots.Snapshotter): metadata operations of the     *)
(* containerd storage layer and the directory handling of the native and   *)
(* overlay snapshotters.  Each returns the error and the store it leaves.  *)

Store == [snaps |-> snaps, dirs |-> dirs, nextId |-> nextId]

\* Info returned by Stat
InfoOf(key, sn) == [Name |-> key, Parent |-> sn.parent, Kind |-> sn.kind, Labels |-> sn.labels]
NoInfo == [Name |-> NoKey, Parent |-> NoKey, Kind |-> "", Labels |-> NoLabels]

\* the mounts the store gives for an active snapshot: native binds the snapshot's
\* directory; overlay gives upperdir/lowerdir, or a bind of the directory without parent;
\* a block-device store gives the snapshot's device with its filesystem type
MountsOf(id, parentId) ==
    IF storeType = "overlay" /\ parentId # 0
    THEN <<OverlayMount(id, parentId)>>
    ELSE IF storeType = "device" THEN <<DeviceMount(id)>>
    ELSE <<BindMount(id)>>
ParentId(s, parent) == IF parent = NoKey THEN 0 ELSE s.snaps[parent].id

\* the mounts of a view: its own
\* directory without a parent; otherwise the parent's directory, or on the overlay store
\* the lower directories alone when the parent has a parent too
LowerOnlyMount(parentId) ==
    [Type |-> "overlay", Source |-> 0, Options |-> <<MountOpt("lowerdir=", parentId)>>]
ViewMountsOf(s, id, parent) ==
    IF storeType = "device" THEN <<DeviceMount(id)>>
    ELSE IF parent = NoKey THEN <<BindMount(id)>>
    ELSE IF storeType = "overlay" /\ s.snaps[parent].parent # NoKey
    THEN <<LowerOnlyMount(s.snaps[parent].id)>>
    ELSE <<BindMount(s.snaps[parent].id)>>

StoreStat(s, key) ==
    IF ~s.snaps[key].exists
    THEN [err |-> Err("not-found", "snapshot does not exist"), info |-> NoInfo]
    ELSE [err |-> NoErr, info |-> InfoOf(key, s.snaps[key])]

StoreMounts(s, key) ==
    IF ~s.snaps[key].exists
    THEN [err |-> Err("not-found", "snapshot does not exist"), mounts |-> <<>>]
    ELSE IF s.snaps[key].kind = "committed"
    THEN [err |-> Err("failed-precondition", "snapshot not active or view"), mounts |-> <<>>]
    ELSE IF s.snaps[key].kind = "view"
    THEN [err |-> NoErr, mounts |-> ViewMountsOf(s, s.snaps[key].id, s.snaps[key].parent)]
    ELSE [err |-> NoErr,
          mounts |-> MountsOf(s.snaps[key].id, ParentId(s, s.snaps[key].parent))]

\* Prepare(key, parent, opts...): opts are applied first, then parent and key are
\* checked, then the snapshot and its directory are created.  ioFault is a backend failure.
StorePrepare(s, key, parent, opts, cmap, ioFault) ==
    LET r == ApplyOpts(opts, cmap)
        fail(e, m) == [err |-> e, mounts |-> <<>>, store |-> s, map |-> m]
    IN IF IsErr(r.err) THEN fail(r.err, r.st.map)
       ELSE IF parent # NoKey /\ ~s.snaps[parent].exists
       THEN fail(Err("not-found", "missing parent"), r.st.map)
       ELSE IF parent # NoKey /\ s.snaps[parent].kind # "committed"
       THEN fail(Err("invalid-argument", "parent is not committed snapshot"), r.st.map)
       ELSE IF s.snaps[key].exists
       THEN fail(Err("already-exists", "snapshot already exists"), r.st.map)
       ELSE IF ioFault
       THEN fail(Err("io", "backend failure"), r.st.map)
       ELSE LET id == s.nextId
                sn == [exists |-> TRUE, id |-> id, kind |-> "active", parent |-> parent,
                       labels |-> LabelsOf(r.st)]
                \* native: the parent's directory is copied (a device store snapshots
                \* the parent's device); overlay: an empty upperdir
                tree == IF storeType # "overlay" /\ parent # NoKey
                        THEN s.dirs[s.snaps[parent].id].tree
                        ELSE EmptyTree
            IN [err |-> NoErr, mounts |-> MountsOf(id, ParentId(s, parent)), map |-> r.st.map,
                store |-> [snaps |-> [s.snaps EXCEPT ![key] = sn],
                           dirs |-> [s.dirs EXCEPT ![id] = DirOf(tree)],
                           nextId |-> id + 1]]

HasChildren(s, key) == \E k \in Keys : s.snaps[k].exists /\ s.snaps[k].parent = key

StoreRemove(s, key, ioFault) ==
    IF ~s.snaps[key].exists
    THEN [err |-> Err("not-found", "snapshot does not exist"), store |-> s]
    ELSE IF HasChildren(s, key)
    THEN [err |-> Err("failed-precondition", "cannot remove snapshot with child"), store |-> s]
    ELSE IF ioFault
    THEN [err |-> Err("io", "backend failure"), store |-> s]
    ELSE [err |-> NoErr,
          store |-> [s EXCEPT !.snaps[key] = NoSnap, !.dirs[s.snaps[key].id] = NoDir]]

StoreCommit(s, name, key) ==
    IF ~s.snaps[key].exists
    THEN [err |-> Err("not-found", "snapshot does not exist"), store |-> s]
    ELSE IF s.snaps[key].kind # "active"
    THEN [err |-> Err("failed-precondition", "snapshot not active"), store |-> s]
    ELSE IF s.snaps[name].exists
    THEN [err |-> Err("already-exists", "committed key already exists"), store |-> s]
    ELSE [err |-> NoErr,
          store |-> [s EXCEPT !.snaps[name] = [s.snaps[key] EXCEPT !.kind = "committed", !.labels = NoLabels],
                              !.snaps[key] = NoSnap]]

\* View(key, parent, opts...): as Prepare, the snapshot read-only
StoreView(s, key, parent, opts, cmap, ioFault) ==
    LET p == StorePrepare(s, key, parent, opts, cmap, ioFault)
    IN IF IsErr(p.err) THEN p
       ELSE [p EXCEPT !.mounts = ViewMountsOf(s, s.nextId, parent),
                      !.store.snaps[key].kind = "view",
                      !.store.dirs[s.nextId] = DirOf(EmptyTree)]

\* Update(info, fieldpaths...) without field paths: the labels are replaced
StoreUpdate(s, key, labels) ==
    IF ~s.snaps[key].exists
    THEN [err |-> Err("not-found", "snapshot does not exist"), info |-> NoInfo, store |-> s]
    ELSE LET sn == [s.snaps[key] EXCEPT !.labels = labels]
         IN [err |-> NoErr, info |-> InfoOf(key, sn), store |-> [s EXCEPT !.snaps[key] = sn]]

\* Walk(fn): fn is called with the Info of every snapshot, in key order
RECURSIVE WalkFrom(_, _)
WalkFrom(s, i) ==
    IF i > Len(KeyOrder) THEN <<>>
    ELSE IF s.snaps[KeyOrder[i]].exists
    THEN <<InfoOf(KeyOrder[i], s.snaps[KeyOrder[i]])>> \o WalkFrom(s, i + 1)
    ELSE WalkFrom(s, i + 1)
StoreWalk(s) == WalkFrom(s, 1)

\* Usage(key): the number of entries of the snapshot's own directory
StoreUsage(s, key) ==
    IF ~s.snaps[key].exists
    THEN [err |-> Err("not-found", "snapshot does not exist"), inodes |-> 0]
    ELSE [err |-> NoErr,
          inodes |-> Cardinality({p \in Paths : s.dirs[s.snaps[key].id].tree[p].kind # "none"})]

----------------------------------------------------------------------------
(* The filesystem view of a snapshot.  Native: the snapshot's directory.   *)
(* Overlay: the upperdir merged over the parent's view; a whiteout hides   *)
(* the lower entry, an opaque directory hides the lower directory's        *)
(* children.                                                               *)

Visible(e) == IF e.kind = "whiteout" THEN None
              ELSE IF e.kind = "dir" THEN Dir ELSE e

OverlayMerge(upper, lower) ==
    LET top(p) == IF upper[p].kind = "none" THEN lower[p] ELSE Visible(upper[p])
        child(c) ==
            LET d == ParentPath(c)
            IN IF top(d).kind # "dir" THEN None
               ELSE IF upper[d].kind = "dir"
               THEN IF upper[c].kind # "none" THEN Visible(upper[c])
                    ELSE IF upper[d].data = "opaque" THEN None
                    ELSE IF lower[d].kind = "dir" THEN lower[c] ELSE None
               ELSE lower[c]
    IN [p \in Paths |-> IF ParentPath(p) = "." THEN top(p) ELSE child(p)]

RECURSIVE ViewOf(_, _)
ViewOf(s, key) ==
    LET sn == s.snaps[key]
    IN IF storeType = "overlay" /\ sn.parent # NoKey
       THEN OverlayMerge(s.dirs[sn.id].tree, ViewOf(s, sn.parent))
       ELSE OverlayMerge(s.dirs[sn.id].tree, EmptyTree)

\* what lies under the writable directory of key in its mount
LowerOf(s, key) ==
    IF storeType = "overlay" /\ s.snaps[key].parent # NoKey
    THEN ViewOf(s, s.snaps[key].parent)
    ELSE EmptyTree

(* Operations of the container process on its mounted view, as they land   *)
(* in the writable directory U over the lower view L.                      *)

CopyUpParent(U, p) ==
    IF ParentPath(p) # "." /\ U[ParentPath(p)].kind = "none"
    THEN [U EXCEPT ![ParentPath(p)] = Dir] ELSE U

\* rm -r p
FsRemove(U, L, p) ==
    LET U1 == CopyUpParent(U, p)
        U2 == [q \in Paths |-> IF q = p \/ ParentPath(q) = p THEN None ELSE U1[q]]
        lowerHas == IF ParentPath(p) = "." THEN L[p].kind # "none"
                    ELSE /\ U2[ParentPath(p)].data # "opaque"
                         /\ L[ParentPath(p)].kind = "dir"
                         /\ L[p].kind # "none"
    IN IF lowerHas THEN [U2 EXCEPT ![p] = Whiteout] ELSE U2

\* write a file, create a symlink: the entry replaces a whiteout
FsPut(U, p, e) == [CopyUpParent(U, p) EXCEPT ![p] = e]

\* mkdir p: over a whiteout the new directory is opaque
FsMkdir(U, p) == [U EXCEPT ![p] = IF U[p].kind = "whiteout" THEN OpaqueDir ELSE Dir]

----------------------------------------------------------------------------
(* clearDir, copyDir's callback, copySymlink, copyFile.                    *)
(* Each returns [err, dir]: the error and the destination directory left.  *)

ParentOk(tree, p) == IF ParentPath(p) = "." THEN TRUE ELSE tree[ParentPath(p)].kind = "dir"

\* the directory left as it was found
clearDirKept(dst, ioFault) == [err |-> NoErr, dir |-> dst]

\* clearDir(dir): a missing directory is not an error; every entry is removed
clearDir(dst, ioFault) ==
    IF ~dst.exists THEN [err |-> NoErr, dir |-> dst]
    ELSE IF ioFault THEN [err |-> Err("io", "remove failed"), dir |-> dst]
    ELSE [err |-> NoErr, dir |-> DirOf(EmptyTree)]

\* the link followed: what it points at is copied in its place
copySymlinkFollowed(src, dst, p) ==
    IF ~src.exists \/ src.tree[p].kind # "symlink" \/ src.tree[p].data \notin Paths
    THEN [err |-> Err("io", "readlink failed"), dir |-> dst]
    ELSE [err |-> NoErr, dir |-> DirOf([dst.tree EXCEPT ![p] = src.tree[src.tree[p].data]])]

\* copySymlink(src, dst): Readlink, then Symlink with the same target string
copySymlink(src, dst, p) ==
    IF ~src.exists \/ src.tree[p].kind # "symlink"
    THEN [err |-> Err("io", "readlink failed"), dir |-> dst]
    ELSE IF ~dst.exists \/ ~ParentOk(dst.tree, p) \/ dst.tree[p].kind # "none"
    THEN [err |-> Err("io", "symlink failed"), dir |-> dst]
    ELSE [err |-> NoErr, dir |-> DirOf([dst.tree EXCEPT ![p] = Symlink(src.tree[p].data)])]

\* copyFile(src, dst, mode): open the source, create or truncate the destination, copy.
\* Opening a whiteout (a character device without a driver) fails.
copyFile(src, dst, p) ==
    IF ~src.exists \/ src.tree[p].kind # "file"
    THEN [err |-> Err("io", "open source failed"), dir |-> dst]
    ELSE IF ~dst.exists \/ ~ParentOk(dst.tree, p) \/ dst.tree[p].kind \notin {"none", "file"}
    THEN [err |-> Err("io", "open destination failed"), dir |-> dst]
    ELSE [err |-> NoErr, dir |-> DirOf([dst.tree EXCEPT ![p] = File(src.tree[p].data)])]

\* os.MkdirAll(dst, perm): nothing to do when it is a directory already; the new
\* directory carries the permission bits only
mkdirAll(dst, p) ==
    IF ~dst.exists \/ ~ParentOk(dst.tree, p) \/ dst.tree[p].kind \notin {"none", "dir"}
    THEN [err |-> Err("io", "mkdir failed"), dir |-> dst]
    ELSE IF dst.tree[p].kind = "dir" THEN [err |-> NoErr, dir |-> dst]
    ELSE [err |-> NoErr, dir |-> DirOf([dst.tree EXCEPT ![p] = Dir])]

\* copyDir's WalkDir callback for the entry at relative path p, listed with type kind
copyEntry(src, dst, p, kind, ioFault) ==
    IF ioFault THEN [err |-> Err("io", "i/o error"), dir |-> dst]
    ELSE CASE kind = "symlink" -> copySymlink(src, dst, p)
           [] kind = "dir" ->
                IF ~src.exists \/ src.tree[p].kind = "none"
                THEN [err |-> Err("io", "lstat failed"), dir |-> dst]
                ELSE mkdirAll(dst, p)
           [] OTHER ->
                IF ~src.exists \/ src.tree[p].kind = "none"
                THEN [err |-> Err("io", "lstat failed"), dir |-> dst]
                ELSE copyFile(src, dst, p)

\* os.ReadDir: the entries of a directory, in lexical order, each with its type
RECURSIVE Listing(_, _, _)
Listing(tree, names, i) ==
    IF i > Len(names) THEN <<>>
    ELSE IF tree[names[i]].kind = "none" THEN Listing(tree, names, i + 1)
    ELSE <<[p |-> names[i], kind |-> tree[names[i]].kind]>> \o Listing(tree, names, i + 1)

----------------------------------------------------------------------------
(* Request state *)

\* the arguments of a call; cmap is the caller's label map and before the inner store
\* as they were when the call was made
NoReq == [key |-> NoKey, parent |-> NoKey, opts |-> <<>>, cmap |-> NoLabels,
          before |-> [snaps |-> [k \in Keys |-> NoSnap], dirs |-> [i \in Ids |-> NoDir], nextId |-> 0]]
NoResult == [mounts |-> <<>>, err |-> NoErr]
NoLoc == [sourceKey |-> NoKey, sourceInfo |-> NoInfo, sourceMounts |-> <<>>, mounts |-> <<>>,
          srcDir |-> 0, dstDir |-> 0, pending |-> <<>>, err |-> NoErr, ctx |-> "live"]

\* one call on the inner store, with what it returned
CallRec(op, key, parent, opts, err, mounts, info) ==
    [op |-> op, key |-> key, parent |-> parent, opts |-> opts,
     err |-> err, mounts |-> mounts, info |-> info]

\* the label maps a caller builds: another label, and possibly the clone directive
CallerMaps == {[l \in LabelKeys |-> IF l = LabelCloneSource THEN c ELSE "v"] :
                  c \in Keys \cup {Absent}}
UsesMap(opts) == \E i \in 1..Len(opts) : opts[i].kind = "withLabels"
MapsFor(opts) == IF UsesMap(opts) THEN CallerMaps ELSE {NoLabels}

\* Keys are interchangeable names: a key not in the store is taken in order
FreshKeys ==
    LET free == {i \in 1..Len(KeyOrder) : ~snaps[KeyOrder[i]].exists}
    IN {KeyOrder[i] : i \in {j \in free : \A k \in free : j <= k}}
KeyChoices == {k \in Keys : snaps[k].exists} \cup FreshKeys

AllIdle == \A r \in Reqs : pc[r] = "idle"

InitWith(storeTypes) ==
    /\ storeType \in storeTypes
    /\ snaps = [k \in Keys |-> NoSnap]
    /\ dirs = [i \in Ids |-> NoDir]
    /\ nextId = 1
    /\ callerMap = [r \in Reqs |-> NoLabels]
    /\ req = [r \in Reqs |-> NoReq]
    /\ pc = [r \in Reqs |-> "idle"]
    /\ loc = [r \in Reqs |-> NoLoc]
    /\ result = [r \in Reqs |-> NoResult]
    /\ calls = [r \in Reqs |-> <<>>]
    /\ nOps = 0

\* a fresh native or overlay store
Init == InitWith({"bind", "overlay"})
\* a fresh store whose snapshots are block devices
InitDevice == InitWith({"device"})

SetStore(s) == /\ snaps' = s.snaps
               /\ dirs' = s.dirs
               /\ nextId' = s.nextId

----------------------------------------------------------------------------
(* CloneSnapshotter.Prepare *)

\* the options resolved with a failing option's error dropped
ResolveRequestLenient(opts, cmap) ==
    LET labels == LabelsOf(ApplyOpts(opts, cmap).st)
    IN [err |-> NoErr,
        ok |-> HasLabel(labels, LabelCloneSource),
        sourceKey |-> IF HasLabel(labels, LabelCloneSource)
                      THEN labels[LabelCloneSource] ELSE NoKey]

\* info := snapshots.Info{}; apply opts; sourceKey, ok := info.Labels[LabelCloneSource]
ResolveRequest(opts, cmap) ==
    LET r == ApplyOpts(opts, cmap)
        labels == LabelsOf(r.st)
    IN [err |-> r.err,
        ok |-> ~IsErr(r.err) /\ HasLabel(labels, LabelCloneSource),
        sourceKey |-> IF ~IsErr(r.err) /\ HasLabel(labels, LabelCloneSource)
                      THEN labels[LabelCloneSource] ELSE NoKey]

\* a delegation that passes the stripped option, as the clone path does
DelegateArgsStripped(key, parent, opts) ==
    [key |-> key, parent |-> parent, opts |-> withoutLabel(opts, OtherLabel)]

\* return s.Snapshotter.Prepare(ctx, key, parent, opts...)
DelegateArgs(key, parent, opts) == [key |-> key, parent |-> parent, opts |-> opts]

Prepare(r, key, parent, opts, cmap, ioFault) ==
    /\ pc[r] = "idle"
    /\ nextId <= MaxIds
    /\ req' = [req EXCEPT ![r] = [key |-> key, parent |-> parent, opts |-> opts,
                                  cmap |-> cmap, before |-> Store]]
    /\ LET res == ResolveRequest(opts, cmap)
       IN IF IsErr(res.err)
          THEN /\ result' = [result EXCEPT ![r] = [mounts |-> <<>>, err |-> res.err]]
               /\ pc' = [pc EXCEPT ![r] = "done"]
               /\ callerMap' = [callerMap EXCEPT ![r] = cmap]
               /\ UNCHANGED <<snaps, dirs, nextId, loc, calls>>
          ELSE IF ~res.ok
          THEN LET a == DelegateArgs(key, parent, opts)
                   sp == StorePrepare(Store, a.key, a.parent, a.opts, cmap, ioFault)
               IN /\ SetStore(sp.store)
                  /\ callerMap' = [callerMap EXCEPT ![r] = sp.map]
                  /\ calls' = [calls EXCEPT ![r] =
                        <<CallRec("prepare", a.key, a.parent, a.opts, sp.err, sp.mounts, NoInfo)>>]
                  /\ result' = [result EXCEPT ![r] = [mounts |-> sp.mounts, err |-> sp.err]]
                  /\ pc' = [pc EXCEPT ![r] = "done"]
                  /\ UNCHANGED loc
          ELSE /\ loc' = [loc EXCEPT ![r] = [NoLoc EXCEPT !.sourceKey = res.sourceKey]]
               /\ callerMap' = [callerMap EXCEPT ![r] = cmap]
               /\ pc' = [pc EXCEPT ![r] = "stat"]
               /\ UNCHANGED <<snaps, dirs, nextId, result, calls>>
    /\ UNCHANGED <<storeType, nOps>>

----------------------------------------------------------------------------
(* CloneSnapshotter.clonePrepare *)

\* the stat error formatted with %v: the text is kept, the chain is not
StatErrorUnwrapped(e) == [kind |-> "unknown", msg |-> <<"stat source snapshot">> \o e.msg]

\* fmt.Errorf("stat source snapshot %q: %w", sourceKey, err)
StatError(e) == Wrap("stat source snapshot", e)
\* fmt.Errorf("get mounts for source snapshot %q: %w", sourceKey, err)
MountsError(e) == Wrap("get mounts for source snapshot", e)
\* fmt.Errorf("prepare snapshot %q: %w", key, err)
PrepareError(e) == Wrap("prepare snapshot", e)
\* fmt.Errorf("copy writable layer from %q to %q: %w", sourceKey, key, err)
CopyError(e) == Wrap("copy writable layer from", e)
\* the cleanup failure returned in place of the copy failure
CleanupErrorOnly(e, removeErr) == Wrap("cleanup failed", removeErr)

\* fmt.Errorf("copy writable layer: %w (cleanup also failed: %v)", err, removeErr)
CleanupError(e, removeErr) ==
    [kind |-> e.kind,
     msg |-> <<"copy writable layer">> \o e.msg \o <<"cleanup also failed">> \o removeErr.msg]

Return(r, mounts, err) ==
    /\ result' = [result EXCEPT ![r] = [mounts |-> mounts, err |-> err]]
    /\ pc' = [pc EXCEPT ![r] = "done"]

\* sourceInfo, err := s.Snapshotter.Stat(ctx, sourceKey)
CloneStat(r) ==
    /\ pc[r] = "stat"
    /\ LET st == StoreStat(Store, loc[r].sourceKey)
       IN /\ calls' = [calls EXCEPT ![r] =
                Append(@, CallRec("stat", loc[r].sourceKey, NoKey, <<>>, st.err, <<>>, st.info))]
          /\ IF IsErr(st.err)
             THEN Return(r, <<>>, StatError(st.err)) /\ UNCHANGED loc
             ELSE /\ loc' = [loc EXCEPT ![r].sourceInfo = st.info]
                  /\ pc' = [pc EXCEPT ![r] = "mounts"]
                  /\ UNCHANGED result
    /\ UNCHANGED <<storeType, snaps, dirs, nextId, callerMap, req, nOps>>

\* the destination prepared without asking for the source's mounts
CloneMountsSkipped(r) ==
    /\ pc[r] = "mounts"
    /\ pc' = [pc EXCEPT ![r] = "prepare"]
    /\ UNCHANGED <<storeType, snaps, dirs, nextId, callerMap, req, loc, result, calls, nOps>>

\* sourceMounts, err := s.Snapshotter.Mounts(ctx, sourceKey)
CloneMounts(r) ==
    /\ pc[r] = "mounts"
    /\ LET m == StoreMounts(Store, loc[r].sourceKey)
       IN /\ calls' = [calls EXCEPT ![r] =
                Append(@, CallRec("mounts", loc[r].sourceKey, NoKey, <<>>, m.err, m.mounts, NoInfo))]
          /\ IF IsErr(m.err)
             THEN Return(r, <<>>, MountsError(m.err)) /\ UNCHANGED loc
             ELSE /\ loc' = [loc EXCEPT ![r].sourceMounts = m.mounts]
                  /\ pc' = [pc EXCEPT ![r] = "prepare"]
                  /\ UNCHANGED result
    /\ UNCHANGED <<storeType, snaps, dirs, nextId, callerMap, req, nOps>>

\* the destination prepared without a parent
InnerPrepareArgsNoParent(key, parent, sourceKey, sourceInfo, opts) ==
    [key |-> key, parent |-> NoKey, opts |-> withoutLabel(opts, LabelCloneSource)]

\* a clone prepared from the parent the caller supplied
InnerPrepareArgsCallerParent(key, parent, sourceKey, sourceInfo, opts) ==
    [key |-> key, parent |-> parent, opts |-> withoutLabel(opts, LabelCloneSource)]

\* innerOpts := withoutLabel(opts, LabelCloneSource)
\* mounts, err := s.Snapshotter.Prepare(ctx, key, sourceInfo.Parent, innerOpts...)
InnerPrepareArgs(key, parent, sourceKey, sourceInfo, opts) ==
    [key |-> key, parent |-> sourceInfo.Parent, opts |-> withoutLabel(opts, LabelCloneSource)]

\* a failed inner Prepare sent through the cleanup of the copy path
AfterPrepareFailureCleanup == "rollback"

\* where clonePrepare goes when the inner Prepare failed: it returns
AfterPrepareFailure == "done"

ClonePrepare(r, ioFault) ==
    /\ pc[r] = "prepare"
    /\ nextId <= MaxIds
    /\ LET a == InnerPrepareArgs(req[r].key, req[r].parent, loc[r].sourceKey, loc[r].sourceInfo,
                                 req[r].opts)
           sp == StorePrepare(Store, a.key, a.parent, a.opts, callerMap[r], ioFault)
       IN /\ SetStore(sp.store)
          /\ callerMap' = [callerMap EXCEPT ![r] = sp.map]
          /\ calls' = [calls EXCEPT ![r] =
                Append(@, CallRec("prepare", a.key, a.parent, a.opts, sp.err, sp.mounts, NoInfo))]
          /\ IF IsErr(sp.err)
             THEN /\ result' = [result EXCEPT ![r] = [mounts |-> <<>>, err |-> PrepareError(sp.err)]]
                  /\ pc' = [pc EXCEPT ![r] = AfterPrepareFailure]
                  /\ loc' = [loc EXCEPT ![r].err = sp.err]
             ELSE /\ loc' = [loc EXCEPT ![r].mounts = sp.mounts]
                  /\ pc' = [pc EXCEPT ![r] = "copy"]
                  /\ UNCHANGED result
    /\ UNCHANGED <<storeType, req, nOps>>

----------------------------------------------------------------------------
(* copyWritableLayer and copyDir *)

Fail(r, e) ==
    /\ loc' = [loc EXCEPT ![r].err = e]
    /\ pc' = [pc EXCEPT ![r] = "rollback"]

\* copyWritableLayer up to the start of the walk: locate both directories, clear the
\* destination, then WalkDir lstats and lists the source root
CopyStart(r, ioFault) ==
    /\ pc[r] = "copy"
    /\ LET src == getWritableDir(loc[r].sourceMounts)
           dst == getWritableDir(loc[r].mounts)
       IN IF IsErr(src.err)
          THEN Fail(r, Wrap("source", src.err)) /\ UNCHANGED dirs
          ELSE IF IsErr(dst.err)
          THEN Fail(r, Wrap("destination", dst.err)) /\ UNCHANGED dirs
          ELSE LET c == clearDir(dirs[dst.dir], ioFault)
               IN IF IsErr(c.err)
                  THEN Fail(r, Wrap("clear destination directory", c.err)) /\ UNCHANGED dirs
                  ELSE /\ dirs' = [dirs EXCEPT ![dst.dir] = c.dir]
                       /\ IF ~dirs[src.dir].exists
                          THEN Fail(r, Err("io", "lstat failed"))
                          ELSE /\ loc' = [loc EXCEPT ![r].srcDir = src.dir,
                                                     ![r].dstDir = dst.dir,
                                                     ![r].pending =
                                                        Listing(dirs[src.dir].tree, TopPaths, 1)]
                               /\ pc' = [pc EXCEPT ![r] = "walk"]
    /\ UNCHANGED <<storeType, snaps, nextId, callerMap, req, result, calls, nOps>>

\* one entry of the walk: the callback, then the listing of a directory just copied
CopyEntry(r, ioFault) ==
    /\ pc[r] = "walk"
    /\ loc[r].pending # <<>>
    /\ LET e == Head(loc[r].pending)
           src == dirs[loc[r].srcDir]
           res == copyEntry(src, dirs[loc[r].dstDir], e.p, e.kind, ioFault)
       IN IF IsErr(res.err)
          THEN Fail(r, res.err) /\ UNCHANGED dirs
          ELSE /\ dirs' = [dirs EXCEPT ![loc[r].dstDir] = res.dir]
               /\ IF e.kind = "dir" /\ src.tree[e.p].kind # "dir"
                  THEN Fail(r, Err("io", "readdir failed"))
                  ELSE /\ loc' = [loc EXCEPT ![r].pending =
                              IF e.kind = "dir"
                              THEN Listing(src.tree, ChildPaths(e.p), 1) \o Tail(@)
                              ELSE Tail(@)]
                       /\ UNCHANGED pc
    /\ UNCHANGED <<storeType, snaps, nextId, callerMap, req, result, calls, nOps>>

\* the walk is over: copyWritableLayer returned nil; return mounts, nil
CloneReturn(r) ==
    /\ pc[r] = "walk"
    /\ loc[r].pending = <<>>
    /\ Return(r, loc[r].mounts, NoErr)
    /\ UNCHANGED <<storeType, snaps, dirs, nextId, callerMap, req, loc, calls, nOps>>

\* a rollback that removes the source snapshot
RollbackSource(r, ioFault) ==
    /\ pc[r] = "rollback"
    /\ LET rm == StoreRemove(Store, loc[r].sourceKey, ioFault)
       IN /\ SetStore(rm.store)
          /\ calls' = [calls EXCEPT ![r] =
                Append(@, CallRec("remove", req[r].key, NoKey, <<>>, rm.err, <<>>, NoInfo))]
          /\ Return(r, <<>>, CopyError(loc[r].err))
    /\ UNCHANGED <<storeType, callerMap, req, loc, nOps>>

\* a copy failure reported without removing the new snapshot
RollbackNoRemove(r, ioFault) ==
    /\ pc[r] = "rollback"
    /\ Return(r, <<>>, CopyError(loc[r].err))
    /\ UNCHANGED <<storeType, snaps, dirs, nextId, callerMap, req, loc, calls, nOps>>

\* copyWritableLayer failed: remove the new snapshot, report the failure
Rollback(r, ioFault) ==
    /\ pc[r] = "rollback"
    /\ LET rm == StoreRemove(Store, req[r].key, ioFault)
       IN /\ SetStore(rm.store)
          /\ calls' = [calls EXCEPT ![r] =
                Append(@, CallRec("remove", req[r].key, NoKey, <<>>, rm.err, <<>>, NoInfo))]
          /\ IF IsErr(rm.err)
             THEN Return(r, <<>>, CleanupError(loc[r].err, rm.err))
             ELSE Return(r, <<>>, CopyError(loc[r].err))
    /\ UNCHANGED <<storeType, callerMap, req, loc, nOps>>

\* the caller has taken the result; the request slot is free again
Ack(r) ==
    /\ pc[r] = "done"
    /\ pc' = [pc EXCEPT ![r] = "idle"]
    /\ req' = [req EXCEPT ![r] = NoReq]
    /\ loc' = [loc EXCEPT ![r] = NoLoc]
    /\ result' = [result EXCEPT ![r] = NoResult]
    /\ calls' = [calls EXCEPT ![r] = <<>>]
    /\ callerMap' = [callerMap EXCEPT ![r] = NoLabels]
    /\ UNCHANGED <<storeType, snaps, dirs, nextId, nOps>>

----------------------------------------------------------------------------
(* The operations CloneSnapshotter does not define.  The struct embeds the  *)
(* inner snapshots.Snapshotter, so Stat, Mounts, View, Commit, Remove,      *)
(* Update, Walk, Usage and Close are the inner store's own methods.         *)

ForwardedOps == {"stat", "mounts", "view", "commit", "remove", "update", "walk", "usage", "close"}

\* Commit(name, key, opts...): the committed snapshot's labels are those of the options
StoreCommitOpts(s, name, key, opts, cmap) ==
    LET c == StoreCommit(s, name, key)
        a == ApplyOpts(opts, cmap)
    IN IF name = NoKey THEN [err |-> Err("invalid-argument", "name required"), store |-> s]
       ELSE IF IsErr(c.err) THEN c
       ELSE IF IsErr(a.err) THEN [err |-> a.err, store |-> s]
       ELSE [c EXCEPT !.store.snaps[name].labels = LabelsOf(a.st)]

\* one operation of the inner store on the arguments a: [err, mounts, out, store]
StoreCall(s, op, a, ioFault) ==
    LET ret(e, m, o, st) == [err |-> e, mounts |-> m, out |-> o, store |-> st]
    IN CASE op = "stat" -> LET x == StoreStat(s, a.key) IN ret(x.err, <<>>, x.info, s)
         [] op = "mounts" -> LET x == StoreMounts(s, a.key) IN ret(x.err, x.mounts, NoInfo, s)
         [] op = "view" ->
                LET x == StoreView(s, a.key, a.name, a.opts, a.cmap, ioFault)
                IN ret(x.err, x.mounts, NoInfo, x.store)
         [] op = "commit" ->
                LET x == StoreCommitOpts(s, a.name, a.key, a.opts, a.cmap)
                IN ret(x.err, <<>>, NoInfo, x.store)
         [] op = "remove" ->
                LET x == StoreRemove(s, a.key, ioFault) IN ret(x.err, <<>>, NoInfo, x.store)
         [] op = "update" ->
                LET x == StoreUpdate(s, a.key, LabelsOf(ApplyOpts(a.opts, a.cmap).st))
                IN ret(x.err, <<>>, x.info, x.store)
         [] op = "walk" -> ret(NoErr, <<>>, StoreWalk(s), s)
         [] op = "usage" -> LET x == StoreUsage(s, a.key) IN ret(x.err, <<>>, x.inodes, s)
         [] op = "close" -> ret(NoErr, <<>>, NoInfo, s)

\* an operation that looks for the clone directive and takes it out of the options
ForwardArgsIntercepted(op, a) == [a EXCEPT !.opts = withoutLabel(a.opts, LabelCloneSource)]

\* a promoted method: the call on the wrapper is the call on the inner store
ForwardArgs(op, a) == a

Forward(r, op, key, name, opts, cmap, ioFault) ==
    /\ pc[r] = "idle"
    /\ op = "view" => nextId <= MaxIds
    /\ LET a == ForwardArgs(op, [key |-> key, name |-> name, opts |-> opts, cmap |-> cmap])
           res == StoreCall(Store, op, a, ioFault)
       IN /\ SetStore(res.store)
          /\ calls' = [calls EXCEPT ![r] =
                <<CallRec(op, a.key, a.name, a.opts, res.err, res.mounts, res.out)>>]
          /\ result' = [result EXCEPT ![r] =
                [mounts |-> res.mounts, err |-> res.err, out |-> res.out]]
    /\ req' = [req EXCEPT ![r] = [op |-> op, key |-> key, parent |-> name, opts |-> opts,
                                  cmap |-> cmap, before |-> Store]]
    /\ callerMap' = [callerMap EXCEPT ![r] = cmap]
    /\ pc' = [pc EXCEPT ![r] = "done"]
    /\ UNCHANGED <<storeType, loc, nOps>>

----------------------------------------------------------------------------
(* The caller's context.  clonePrepare hands ctx to the inner store's calls; *)
(* copyWritableLayer and copyDir take no context.                           *)

\* the caller cancels ctx while copyWritableLayer runs
Cancel(r) ==
    /\ pc[r] \in {"copy", "walk"}
    /\ loc[r].ctx = "live"
    /\ loc' = [loc EXCEPT ![r].ctx = "cancelled"]
    /\ UNCHANGED <<storeType, snaps, dirs, nextId, callerMap, req, pc, result, calls, nOps>>

----------------------------------------------------------------------------
(* The environment: Commit (forwarded to the inner store by embedding) and *)
(* the container process writing into an active snapshot's mounted view.   *)

Commit(name, key) ==
    /\ AllIdle
    /\ LET c == StoreCommit(Store, name, key)
       IN ~IsErr(c.err) /\ SetStore(c.store)
    /\ UNCHANGED <<storeType, callerMap, req, pc, loc, result, calls, nOps>>

Active(key) == snaps[key].exists /\ snaps[key].kind = "active"
\* a container runs on an active snapshot made on top of a committed image layer
Writable(key) == Active(key) /\ snaps[key].parent # NoKey
UpperOf(key) == dirs[snaps[key].id].tree
SetUpper(key, tree) == dirs' = [dirs EXCEPT ![snaps[key].id] = DirOf(tree)]
EnvFrame == UNCHANGED <<storeType, snaps, nextId, callerMap, req, pc, loc, result, calls>>

\* an image layer is unpacked into a fresh base snapshot
Unpack(key) ==
    /\ AllIdle /\ Active(key)
    /\ snaps[key].parent = NoKey /\ UpperOf(key) = EmptyTree
    /\ SetUpper(key, LayerTree)
    /\ UNCHANGED nOps /\ EnvFrame

ContainerRemove(key, p) ==
    /\ AllIdle /\ Writable(key) /\ nOps < MaxOps
    /\ ViewOf(Store, key)[p].kind # "none"
    /\ SetUpper(key, FsRemove(UpperOf(key), LowerOf(Store, key), p))
    /\ nOps' = nOps + 1 /\ EnvFrame

ContainerWrite(key, p) ==
    /\ AllIdle /\ Writable(key) /\ nOps < MaxOps
    /\ p # "d"
    /\ ParentOk(ViewOf(Store, key), p)
    /\ ViewOf(Store, key)[p].kind \in {"none", "file"}
    /\ SetUpper(key, FsPut(UpperOf(key), p, File("y")))
    /\ nOps' = nOps + 1 /\ EnvFrame

ContainerMkdir(key) ==
    /\ AllIdle /\ Writable(key) /\ nOps < MaxOps
    /\ ViewOf(Store, key)["d"].kind = "none"
    /\ SetUpper(key, FsMkdir(UpperOf(key), "d"))
    /\ nOps' = nOps + 1 /\ EnvFrame

LinkTargets == {"d", "nowhere"}

ContainerSymlink(key, target) ==
    /\ AllIdle /\ Writable(key) /\ nOps < MaxOps
    /\ ViewOf(Store, key)["a"].kind = "none"
    /\ SetUpper(key, FsPut(UpperOf(key), "a", Symlink(target)))
    /\ nOps' = nOps + 1 /\ EnvFrame

----------------------------------------------------------------------------

\* the requests a caller makes, with options from optSeqs, a parent from parents and, in a
\* label map, a directive from sources
RequestWith(callers, optSeqs, parents, faults, sources) ==
    \E r \in callers :
       /\ pc[r] = "idle"
       /\ \E key \in KeyChoices, parent \in parents, opts \in optSeqs, ioFault \in faults :
             \E cmap \in {m \in MapsFor(opts) : UsesMap(opts) => m[LabelCloneSource] \in sources} :
                Prepare(r, key, parent, opts, cmap, ioFault)

RequestBy(callers, optSeqs, parents, faults) ==
    RequestWith(callers, optSeqs, parents, faults, Keys \cup {Absent})

Request(optSeqs, parents, faults) == RequestBy(Callers, optSeqs, parents, faults)

Pipeline ==
    \/ \E r \in Reqs : CloneStat(r)
    \/ \E r \in Reqs : CloneMounts(r)
    \/ \E r \in Reqs, ioFault \in BOOLEAN : ClonePrepare(r, ioFault)
    \/ \E r \in Reqs, ioFault \in BOOLEAN : CopyStart(r, ioFault)
    \/ \E r \in Reqs, ioFault \in BOOLEAN : CopyEntry(r, ioFault)
    \/ \E r \in Reqs : CloneReturn(r)
    \/ \E r \in Reqs, ioFault \in BOOLEAN : Rollback(r, ioFault)
    \/ \E r \in Reqs : Ack(r)

Container ==
    \/ \E key \in Keys : Unpack(key)
    \/ \E key \in Keys, p \in Paths : ContainerRemove(key, p)
    \/ \E key \in Keys, p \in Paths : ContainerWrite(key, p)
    \/ \E key \in Keys : ContainerMkdir(key)
    \/ \E key \in Keys, target \in LinkTargets : ContainerSymlink(key, target)

\* Spec: the clone pipeline over a store whose snapshots hold files
Next ==
    \/ Request({<<>>}, Keys \cup {NoKey}, BOOLEAN)
    \/ Request({<<Opt("withLabels")>>}, {NoKey}, BOOLEAN)
    \/ Pipeline
    \/ \E name \in FreshKeys, key \in Keys : Commit(name, key)
    \/ Container

Spec == Init /\ [][Next]_vars

\* SpecOpts: every option sequence a caller can pass, over a store whose first snapshot
\* holds an unpacked layer or nothing and whose other snapshots hold what Prepare put there
NextOpts ==
    \/ Request(OptSeqs, Keys \cup {NoKey}, BOOLEAN)
    \/ Pipeline
    \/ \E name \in FreshKeys, key \in Keys : Commit(name, key)
    \/ (nextId = 2 /\ Unpack(KeyOrder[1]))

SpecOpts == Init /\ [][NextOpts]_vars

\* SpecFwd: the operations other than Prepare, and Prepare without the directive.  The
\* labels an operation carries are none, or a map that names the first key as clone source.
LabelOpts == {<<>>, <<Opt("withLabels")>>}
FwdMaps(opts) ==
    IF UsesMap(opts) THEN {m \in CallerMaps : m[LabelCloneSource] = KeyOrder[1]} ELSE {NoLabels}
\* the arguments each operation takes
FwdKeys(op) == IF op \in {"walk", "close"} THEN {NoKey} ELSE KeyChoices
FwdNames(op) == IF op \in {"view", "commit"} THEN KeyChoices \cup {NoKey} ELSE {NoKey}
FwdOpts(op) == IF op \in {"view", "commit", "update"} THEN LabelOpts ELSE {<<>>}
FwdFaults(op) == IF op \in {"view", "remove"} THEN BOOLEAN ELSE {FALSE}
NextFwd ==
    \/ Request({<<>>}, KeyChoices \cup {NoKey}, BOOLEAN)
    \/ \E r \in Callers :
          /\ pc[r] = "idle"
          /\ \E op \in ForwardedOps :
                \E key \in FwdKeys(op), name \in FwdNames(op), opts \in FwdOpts(op),
                   ioFault \in FwdFaults(op) :
                   \E cmap \in FwdMaps(opts) : Forward(r, op, key, name, opts, cmap, ioFault)
    \/ \E r \in Reqs : Ack(r)
    \/ Unpack(KeyOrder[1])

SpecFwd == Init /\ [][NextFwd]_vars

\* SpecDevice: clones on a store whose mounts are block devices.  No writable directory
\* is found in such mounts, so the walk is never reached.
NextDevice ==
    \/ Request(LabelOpts, KeyChoices \cup {NoKey}, BOOLEAN)
    \/ \E r \in Reqs : CloneStat(r)
    \/ \E r \in Reqs : CloneMounts(r)
    \/ \E r \in Reqs, ioFault \in BOOLEAN : ClonePrepare(r, ioFault)
    \/ \E r \in Reqs, ioFault \in BOOLEAN : CopyStart(r, ioFault)
    \/ \E r \in Reqs, ioFault \in BOOLEAN : Rollback(r, ioFault)
    \/ \E r \in Reqs : Ack(r)
    \/ \E name \in FreshKeys, key \in Keys : Commit(name, key)
    \/ \E key \in Keys : Unpack(key)

SpecDevice == InitDevice /\ [][NextDevice]_vars

\* SpecLocate: getWritableDir on every list of up to MaxMounts mounts of these shapes
MountShapes ==
    {BindMount(1), BindMount(2), DeviceMount(1),
     [Type |-> "tmpfs", Source |-> 2, Options |-> <<>>],
     LowerOnlyMount(1),
     [Type |-> "overlay", Source |-> 0, Options |-> <<>>],
     OverlayMount(1, 2),
     [Type |-> "overlay", Source |-> 0,
      Options |-> <<MountOpt("index=", 1), MountOpt("upperdir=", 2), MountOpt("upperdir=", 1)>>]}
MountLists == UNION {[1..n -> MountShapes] : n \in 0..MaxMounts}

InitLocate ==
    /\ storeType = "bind"
    /\ snaps = [k \in Keys |-> NoSnap]
    /\ dirs = [i \in Ids |-> NoDir]
    /\ nextId = 1
    /\ callerMap = [r \in Reqs |-> NoLabels]
    /\ req = [r \in Reqs |-> NoReq]
    /\ pc = [r \in Reqs |-> IF r \in Callers THEN "locate" ELSE "idle"]
    /\ \E ms \in MountLists :
          loc = [r \in Reqs |-> IF r \in Callers THEN [NoLoc EXCEPT !.sourceMounts = ms]
                                ELSE NoLoc]
    /\ result = [r \in Reqs |-> NoResult]
    /\ calls = [r \in Reqs |-> <<>>]
    /\ nOps = 0

\* srcDir, err := getWritableDir(srcMounts)
Locate(r) ==
    /\ pc[r] = "locate"
    /\ LET w == getWritableDir(loc[r].sourceMounts)
       IN loc' = [loc EXCEPT ![r].srcDir = w.dir, ![r].err = w.err]
    /\ pc' = [pc EXCEPT ![r] = "located"]
    /\ UNCHANGED <<storeType, snaps, dirs, nextId, callerMap, req, result, calls, nOps>>

NextLocate == \E r \in Reqs : Locate(r)

SpecLocate == InitLocate /\ [][NextLocate]_vars

\* SpecPair: two callers at once, each making plain Prepare calls or clones of the first
\* key; a free key is taken in order, so calls that overlap before either has created its
\* snapshot name the same destination key
NextPair ==
    \/ RequestBy(Reqs, {<<>>}, {NoKey}, {FALSE})
    \/ RequestWith(Reqs, {<<Opt("withLabels")>>}, {NoKey}, {FALSE}, {KeyOrder[1]})
    \/ Pipeline
    \/ (nextId = 2 /\ Unpack(KeyOrder[1]))

SpecPair == Init /\ [][NextPair]_vars

\* SpecCancel: clones of the first key whose caller may cancel during the copy
NextCancel ==
    \/ Request({<<>>}, {NoKey}, {FALSE})
    \/ RequestWith(Callers, {<<Opt("withLabels")>>}, {NoKey}, {FALSE}, {KeyOrder[1]})
    \/ Pipeline
    \/ \E r \in Reqs : Cancel(r)
    \/ (nextId = 2 /\ Unpack(KeyOrder[1]))

SpecCancel == Init /\ [][NextCancel]_vars

----------------------------------------------------------------------------
(* Properties *)

Done(r) == pc[r] = "done"
\* the request went down clonePrepare
IsClone(r) == loc[r].sourceKey # NoKey
Succeeded(r) == Done(r) /\ ~IsErr(result[r].err)
ClonedOk(r) == Succeeded(r) /\ IsClone(r)
\* the labels a request's options resolve to hold no clone directive
NoDirective(q) ==
    LET a == ApplyOpts(q.opts, q.cmap)
    IN ~IsErr(a.err) /\ ~HasLabel(LabelsOf(a.st), LabelCloneSource)
CallOps(r) == [i \in 1..Len(calls[r]) |-> calls[r][i].op]
StoreOf(s) == <<s.snaps, s.dirs, s.nextId>>

\* C1 (calls and result): a returned request without the directive made one call on the
\* inner store, Prepare with the caller's key, parent and options, and returned its result
C1_OneCall ==
    \A r \in Reqs : Done(r) /\ NoDirective(req[r]) =>
        /\ CallOps(r) = <<"prepare">>
        /\ calls[r][1].key = req[r].key
        /\ calls[r][1].parent = req[r].parent
        /\ calls[r][1].opts = req[r].opts
        /\ result[r] = [mounts |-> calls[r][1].mounts, err |-> calls[r][1].err]

\* C1 (state): the step that serves such a request leaves the store, the caller's map and
\* the result exactly as the inner store's Prepare on the same arguments leaves them
C1_SameAsStore ==
    \A r \in Reqs : pc[r] = "idle" /\ pc'[r] = "done" /\ NoDirective(req'[r]) =>
        \E f \in BOOLEAN :
            LET q == req'[r]
                sp == StorePrepare(Store, q.key, q.parent, q.opts, q.cmap, f)
            IN /\ <<snaps', dirs', nextId'>> = StoreOf(sp.store)
               /\ callerMap'[r] = sp.map
               /\ result'[r] = [mounts |-> sp.mounts, err |-> sp.err]

\* C1: a Prepare whose resolved labels lack the clone directive is the inner store's
\* Prepare: one call with the same key, parent and options, its mounts and error returned
\* verbatim, no stat, mounts or remove call, the same resulting store.
C1_PureDelegation == []C1_OneCall /\ [][C1_SameAsStore]_vars

C1_Witness ==
    \E r \in Reqs : /\ Succeeded(r) /\ NoDirective(req[r])
                    /\ req[r].parent # NoKey
                    /\ Len(req[r].opts) = 2 /\ UsesMap(req[r].opts)
                    /\ HasLabel(snaps[req[r].key].labels, OtherLabel)

\* C2: after a successful clone the destination's parent is the parent Stat returned for
\* the source, whatever parent the caller passed, and never the source itself.
C2_CloneParent ==
    \A r \in Reqs : ClonedOk(r) =>
        /\ snaps[req[r].key].exists
        /\ calls[r][1].op = "stat"
        /\ snaps[req[r].key].parent = calls[r][1].info.Parent
        /\ snaps[req[r].key].parent # loc[r].sourceKey

C2_Witness ==
    \E r \in Reqs : /\ ClonedOk(r)
                    /\ req[r].parent # NoKey
                    /\ req[r].parent # snaps[loc[r].sourceKey].parent
                    /\ snaps[req[r].parent].exists
                    /\ snaps[req[r].parent].kind = "committed"

\* C3: a clone whose source key is not in the store returns a not-found error, makes no
\* Prepare call on the inner store and leaves the store as it was, the destination key
\* absent.
C3_MissingSource ==
    \A r \in Reqs :
        Done(r) /\ IsClone(r) /\ ~req[r].before.snaps[loc[r].sourceKey].exists =>
            /\ result[r].err.kind = "not-found"
            /\ result[r].mounts = <<>>
            /\ CallOps(r) = <<"stat">>
            /\ StoreOf(Store) = StoreOf(req[r].before)
            /\ (~req[r].before.snaps[req[r].key].exists => ~snaps[req[r].key].exists)

C3_Witness ==
    \E r \in Reqs : /\ Done(r) /\ IsClone(r)
                    /\ ~req[r].before.snaps[loc[r].sourceKey].exists
                    /\ loc[r].sourceKey # req[r].key
                    /\ ~snaps[req[r].key].exists
                    /\ \E k \in Keys : snaps[k].exists

\* the inner Prepare of a clone succeeded / failed
Prepared(r) == \E i \in 1..Len(calls[r]) : calls[r][i].op = "prepare" /\ ~IsErr(calls[r][i].err)
PrepareFailed(r) == \E i \in 1..Len(calls[r]) : calls[r][i].op = "prepare" /\ IsErr(calls[r][i].err)
\* copyWritableLayer returned an error
CopyFailed(r) == Prepared(r) /\ IsErr(loc[r].err)
LastCall(r) == calls[r][Len(calls[r])]
\* the text t appears in the text s
Contains(s, t) == \E i \in 0..(Len(s) - Len(t)) : SubSeq(s, i + 1, i + Len(t)) = t

\* C4: when locating, clearing or copying fails after the inner store created the
\* destination, the clone calls Remove on the destination key and returns an error; when
\* that Remove succeeded, Stat of the destination key fails not-found.
C4_Rollback ==
    \A r \in Reqs : Done(r) /\ IsClone(r) /\ CopyFailed(r) =>
        /\ CallOps(r) = <<"stat", "mounts", "prepare", "remove">>
        /\ LastCall(r).key = req[r].key
        /\ IsErr(result[r].err)
        /\ result[r].mounts = <<>>
        /\ (~IsErr(LastCall(r).err) => StoreStat(Store, req[r].key).err.kind = "not-found")

\* the copy failed at d/f, after d had been created in the destination
C4_Witness ==
    \E r \in Reqs : /\ Done(r) /\ IsClone(r) /\ CopyFailed(r)
                    /\ LastCall(r).op = "remove" /\ ~IsErr(LastCall(r).err)
                    /\ loc[r].pending # <<>>
                    /\ Head(loc[r].pending).p = "d/f"

\* C6: when the inner Prepare of a clone fails, the clone returns that failure, never
\* clears or copies, never calls Remove, and the store (a snapshot already under the
\* destination key included, with its directory) is as it was.
C6_PrepareFailure ==
    \A r \in Reqs : Done(r) /\ IsClone(r) /\ PrepareFailed(r) =>
        /\ CallOps(r) = <<"stat", "mounts", "prepare">>
        /\ result[r].err.kind = LastCall(r).err.kind
        /\ Contains(result[r].err.msg, LastCall(r).err.msg)
        /\ result[r].mounts = <<>>
        /\ loc[r].dstDir = 0
        /\ StoreOf(Store) = StoreOf(req[r].before)

C6_Witness ==
    \E r \in Reqs : /\ Done(r) /\ IsClone(r) /\ PrepareFailed(r)
                    /\ LastCall(r).err.kind = "already-exists"
                    /\ req[r].key # loc[r].sourceKey
                    /\ snaps[req[r].key].kind = "active"
                    /\ dirs[snaps[req[r].key].id].tree # EmptyTree

\* C7: when the copy fails and the Remove of the rollback fails too, the clone returns an
\* error that carries the copy failure (still the cause errors.Is finds) and the text of
\* both failures.
C7_BothErrors ==
    \A r \in Reqs :
        Done(r) /\ IsClone(r) /\ CopyFailed(r) /\ LastCall(r).op = "remove"
                /\ IsErr(LastCall(r).err) =>
            /\ IsErr(result[r].err)
            /\ result[r].mounts = <<>>
            /\ result[r].err.kind = loc[r].err.kind
            /\ Contains(result[r].err.msg, loc[r].err.msg)
            /\ Contains(result[r].err.msg, LastCall(r).err.msg)

C7_Witness ==
    \E r \in Reqs : /\ Done(r) /\ IsClone(r) /\ CopyFailed(r)
                    /\ LastCall(r).op = "remove" /\ IsErr(LastCall(r).err)
                    /\ loc[r].err.msg # LastCall(r).err.msg
                    /\ snaps[req[r].key].exists

\* C5: after a successful clone the labels stored on the destination hold no clone
\* directive, wherever in the option sequence it was set: the inner store got one option
\* that applies the caller's options in order and then deletes the key, so the stored
\* labels are the resolved labels without it.
C5_DirectiveNotStored ==
    \A r \in Reqs : ClonedOk(r) =>
        /\ ~HasLabel(snaps[req[r].key].labels, LabelCloneSource)
        /\ calls[r][3].op = "prepare"
        /\ calls[r][3].opts =
              <<[kind |-> "withoutLabel", inner |-> req[r].opts, label |-> LabelCloneSource]>>
        /\ snaps[req[r].key].labels =
              DeleteLabel(LabelsOf(ApplyOpts(req[r].opts, req[r].cmap).st), LabelCloneSource)

\* the directive came from the second of two options
C5_Witness ==
    \E r \in Reqs : /\ ClonedOk(r)
                    /\ Len(req[r].opts) = 2
                    /\ req[r].opts[1].kind = "noLabels"
                    /\ req[r].opts[2].kind = "withLabels"
                    /\ HasLabel(req[r].cmap, LabelCloneSource)
                    /\ HasLabel(snaps[req[r].key].labels, OtherLabel)

----------------------------------------------------------------------------
(* The copied writable layer *)

SourceTree(r) == dirs[snaps[loc[r].sourceKey].id].tree
CloneTree(r) == dirs[snaps[req[r].key].id].tree
Ancestor(r) == snaps[loc[r].sourceKey].parent

\* C8: a file of the committed ancestor that the source's view no longer shows is not
\* shown by the view of a successfully created clone either, on the bind store and on
\* the overlay store alike.
C8_DeletedAbsent ==
    \A r \in Reqs : ClonedOk(r) /\ Ancestor(r) # NoKey =>
        \A p \in Paths :
            /\ ViewOf(Store, Ancestor(r))[p].kind = "file"
            /\ ViewOf(Store, loc[r].sourceKey)[p].kind = "none"
            => ViewOf(Store, req[r].key)[p].kind = "none"

\* C9: after a successful clone the destination's writable directory has an entry
\* exactly where the source's has one, of the same kind, a regular file with the same
\* content, whatever the destination held before the copy.
C9_SameEntries ==
    \A r \in Reqs : ClonedOk(r) =>
        \A p \in Paths :
            /\ CloneTree(r)[p].kind = SourceTree(r)[p].kind
            /\ SourceTree(r)[p].kind = "file" => CloneTree(r)[p].data = SourceTree(r)[p].data

\* the bind store filled the destination from the parent, the source had deleted a
\* file of the parent and written one of its own
C9_Witness ==
    \E r \in Reqs :
        /\ ClonedOk(r) /\ storeType = "bind" /\ Ancestor(r) # NoKey
        /\ \E p \in Paths : /\ dirs[snaps[Ancestor(r)].id].tree[p].kind = "file"
                            /\ SourceTree(r)[p].kind = "none"
                            /\ CloneTree(r)[p].kind = "none"
        /\ \E p \in Paths : SourceTree(r)[p] = File("y") /\ CloneTree(r)[p] = File("y")

\* C10: every symbolic link of the source's writable directory is a symbolic link with
\* the same target in the clone
C10_LinksKept ==
    \A r \in Reqs : ClonedOk(r) =>
        \A p \in Paths : SourceTree(r)[p].kind = "symlink" => CloneTree(r)[p] = SourceTree(r)[p]

\* C10: the walk's step on a symbolic link creates the link with the source's target and
\* goes on to the next entry without listing anything under it; it fails on an I/O
\* fault only, whether or not the target exists
C10_LinkStep ==
    \A r \in Reqs :
        pc[r] = "walk" /\ loc[r].pending # <<>> /\ Head(loc[r].pending).kind = "symlink" =>
            LET p == Head(loc[r].pending).p
            IN \/ /\ pc'[r] = "walk"
                  /\ loc'[r].pending = Tail(loc[r].pending)
                  /\ dirs'[loc[r].dstDir].tree =
                        [dirs[loc[r].dstDir].tree EXCEPT ![p] = Symlink(dirs[loc[r].srcDir].tree[p].data)]
               \/ /\ pc'[r] = "rollback"
                  /\ loc'[r].err = Err("io", "i/o error")
                  /\ dirs' = dirs

\* C10: symbolic links are recreated with their target string and never followed
C10_SymlinksNotFollowed == []C10_LinksKept /\ [][C10_LinkStep]_vars

\* the source holds a link to a directory that has a file in it
C10_Witness ==
    \E r \in Reqs :
        /\ ClonedOk(r)
        /\ SourceTree(r)["a"] = Symlink("d")
        /\ SourceTree(r)["d"].kind = "dir" /\ SourceTree(r)["d/f"].kind = "file"
        /\ CloneTree(r)["a"] = Symlink("d")

\* the source holds a link whose target does not exist
C10_Dangling ==
    \E r \in Reqs : ClonedOk(r) /\ SourceTree(r)["a"] = Symlink("nowhere")
                                /\ CloneTree(r)["a"] = Symlink("nowhere")

\* a file of the source's committed ancestor that the source's writable layer neither
\* holds nor deleted: its view still shows the ancestor's file and, on the overlay
\* store, its upperdir has no entry at the path
Inherited(r, p) ==
    /\ Ancestor(r) # NoKey
    /\ ViewOf(Store, Ancestor(r))[p].kind = "file"
    /\ ViewOf(Store, loc[r].sourceKey)[p] = ViewOf(Store, Ancestor(r))[p]
    /\ storeType = "overlay" => SourceTree(r)[p].kind = "none"

\* C11: after a successful clone every file of the source's committed ancestor that the
\* source's writable layer neither holds nor deleted is in the clone's view with the
\* ancestor's content.
C11_InheritedVisible ==
    \A r \in Reqs : ClonedOk(r) =>
        \A p \in Paths :
            Inherited(r, p) => ViewOf(Store, req[r].key)[p] = ViewOf(Store, Ancestor(r))[p]

\* overlay store: the source wrote a file of its own and left a file of the ancestor alone
C11_Witness ==
    \E r \in Reqs :
        /\ ClonedOk(r) /\ storeType = "overlay"
        /\ \E p \in Paths : Inherited(r, p) /\ ViewOf(Store, req[r].key)[p] = File("x")
        /\ \E q \in Paths : SourceTree(r)[q] = File("y") /\ CloneTree(r)[q] = File("y")

----------------------------------------------------------------------------
(* The operations other than Prepare *)

Forwarded(r) == "op" \in DOMAIN req[r]

\* C12 (calls and result): a returned operation other than Prepare made one call on the
\* inner store, the same operation with the caller's arguments, and returned its result
C12_OneCall ==
    \A r \in Reqs : Done(r) /\ Forwarded(r) =>
        /\ ~IsClone(r)
        /\ CallOps(r) = <<req[r].op>>
        /\ calls[r][1].key = req[r].key
        /\ calls[r][1].parent = req[r].parent
        /\ calls[r][1].opts = req[r].opts
        /\ result[r] = [mounts |-> calls[r][1].mounts, err |-> calls[r][1].err,
                        out |-> calls[r][1].info]

\* C12 (state): the step that serves such an operation leaves the store and the result
\* as the inner store's operation on the same arguments leaves them
C12_SameAsStore ==
    \A r \in Reqs : pc[r] = "idle" /\ pc'[r] = "done" /\ Forwarded(r)' =>
        \E f \in BOOLEAN :
            LET q == req'[r]
                x == StoreCall(Store, q.op,
                               [key |-> q.key, name |-> q.parent, opts |-> q.opts,
                                cmap |-> q.cmap], f)
            IN /\ <<snaps', dirs', nextId'>> = StoreOf(x.store)
               /\ result'[r] = [mounts |-> x.mounts, err |-> x.err, out |-> x.out]

\* C12: every operation other than Prepare is the inner store's operation, with the same
\* arguments and the same result, whatever labels it carries; the clone directive on it
\* starts no clone.
C12_Forwarded == []C12_OneCall /\ [][C12_SameAsStore]_vars

\* a View that carried the clone directive of an existing snapshot made a plain view on
\* the parent it named and stored the directive as a label
C12_Witness ==
    \E r \in Reqs :
        /\ Succeeded(r) /\ Forwarded(r) /\ req[r].op = "view"
        /\ HasLabel(req[r].cmap, LabelCloneSource)
        /\ snaps[req[r].cmap[LabelCloneSource]].exists
        /\ snaps[req[r].key].kind = "view"
        /\ snaps[req[r].key].parent = req[r].parent
        /\ snaps[req[r].key].labels = req[r].cmap

----------------------------------------------------------------------------
(* Order of the calls on the inner store *)

\* C13: in a clone the inner store's Prepare is the third call, after a Stat and a Mounts
\* of the source that both succeeded; when either of them failed the clone returned
\* without a Prepare call and with the store as it was.
C13_QueriesFirst ==
    \A r \in Reqs : IsClone(r) =>
        /\ \A i \in 1..Len(calls[r]) : calls[r][i].op = "prepare" =>
              /\ i = 3
              /\ calls[r][1].op = "stat" /\ calls[r][1].key = loc[r].sourceKey
              /\ ~IsErr(calls[r][1].err)
              /\ calls[r][2].op = "mounts" /\ calls[r][2].key = loc[r].sourceKey
              /\ ~IsErr(calls[r][2].err)
        /\ (\E i \in 1..Len(calls[r]) : calls[r][i].op \in {"stat", "mounts"} /\ IsErr(calls[r][i].err))
              => /\ Done(r) /\ IsErr(result[r].err)
                 /\ ~Prepared(r) /\ ~PrepareFailed(r)
                 /\ Store = req[r].before

\* the source is a committed snapshot: Stat succeeds, Mounts fails
C13_Witness ==
    \E r \in Reqs : /\ Done(r) /\ IsClone(r)
                    /\ CallOps(r) = <<"stat", "mounts">>
                    /\ IsErr(calls[r][2].err)
                    /\ snaps[loc[r].sourceKey].kind = "committed"
                    /\ ~snaps[req[r].key].exists

\* the source's mounts are known and hold no entry that names a writable directory
SourceUnlocatable(r) ==
    /\ IsClone(r) /\ loc[r].sourceMounts # <<>>
    /\ IsErr(getWritableDir(loc[r].sourceMounts).err)

\* C14: when the source's mounts name no writable directory the clone fails without the
\* inner store's Prepare for the destination key ever being called.
C14_FailsBeforeCreate ==
    \A r \in Reqs : SourceUnlocatable(r) => ~Prepared(r) /\ ~PrepareFailed(r)

----------------------------------------------------------------------------
(* The writable-layer locator *)

\* an entry that names a writable directory, and the directory it names
Qualifies(m) ==
    \/ m.Type = "bind"
    \/ m.Type = "overlay" /\ \E j \in 1..Len(m.Options) : m.Options[j].pre = "upperdir="
WritableOf(m) ==
    IF m.Type = "bind" THEN m.Source
    ELSE LET J == {j \in 1..Len(m.Options) : m.Options[j].pre = "upperdir="}
         IN m.Options[CHOOSE j \in J : \A k \in J : j <= k].val

\* C15: the locator returns the directory of the first entry of the list that is a bind
\* (its source) or an overlay with an upperdir= option (the value of its first such
\* option); it fails exactly when no entry is one of these, with the mount types of the
\* list, in order, in the error.
C15_FirstQualifying ==
    \A r \in Reqs : pc[r] = "located" =>
        LET ms == loc[r].sourceMounts
            Q == {i \in 1..Len(ms) : Qualifies(ms[i])}
        IN IF Q = {}
           THEN /\ IsErr(loc[r].err)
                /\ Contains(loc[r].err.msg, [i \in 1..Len(ms) |-> ms[i].Type])
                /\ Len(loc[r].err.msg) = 1 + Len(ms)
           ELSE /\ ~IsErr(loc[r].err)
                /\ loc[r].srcDir = WritableOf(ms[CHOOSE i \in Q : \A k \in Q : i <= k])

\* an overlay without upperdir is passed over; the next entry has two upperdir options
C15_Witness ==
    \E r \in Reqs :
        /\ pc[r] = "located" /\ Len(loc[r].sourceMounts) = 2
        /\ loc[r].sourceMounts[1] = LowerOnlyMount(1)
        /\ Len(loc[r].sourceMounts[2].Options) = 3
        /\ loc[r].sourceMounts[2].Options[2] = MountOpt("upperdir=", 2)
        /\ loc[r].sourceMounts[2].Options[3] = MountOpt("upperdir=", 1)
        /\ ~IsErr(loc[r].err) /\ loc[r].srcDir = 2

----------------------------------------------------------------------------
(* Two calls at once *)

\* the directory of the snapshot the request's own inner Prepare created; 0 if none
CreatedId(r) ==
    IF Prepared(r)
    THEN LET i == CHOOSE j \in 1..Len(calls[r]) :
                     calls[r][j].op = "prepare" /\ ~IsErr(calls[r][j].err)
         IN getWritableDir(calls[r][i].mounts).dir
    ELSE 0
Removed(r) == \E i \in 1..Len(calls[r]) : calls[r][i].op = "remove" /\ ~IsErr(calls[r][i].err)
\* the step is one of request r
StepOf(r) == pc'[r] # pc[r] \/ loc'[r] # loc[r]

\* C16 (one creator): of two clones on the same destination key, both can have created a
\* snapshot only if one of them has removed its own again, and the two are not the same
C16_OneCreator ==
    \A r1, r2 \in Reqs :
        /\ r1 # r2 /\ IsClone(r1) /\ IsClone(r2) /\ req[r1].key = req[r2].key
        /\ Prepared(r1) /\ Prepared(r2)
        => CreatedId(r1) # CreatedId(r2) /\ (Removed(r1) \/ Removed(r2))

\* C16 (rejected): a clone whose inner Prepare failed has located no destination
\* directory and has called no Remove
C16_Rejected ==
    \A r \in Reqs : IsClone(r) /\ PrepareFailed(r) =>
        /\ loc[r].mounts = <<>> /\ loc[r].dstDir = 0
        /\ \A i \in 1..Len(calls[r]) : calls[r][i].op # "remove"

\* C16 (own snapshot only): a copy or rollback step of a clone changes no directory but
\* the one its own Prepare created and removes no snapshot but that one
C16_OwnOnly ==
    \A r \in Reqs : pc[r] \in {"copy", "walk", "rollback"} /\ StepOf(r) =>
        /\ \A i \in Ids : dirs'[i] # dirs[i] => i = CreatedId(r)
        /\ \A k \in Keys : snaps'[k] # snaps[k] =>
              /\ k = req[r].key
              /\ snaps[k].exists /\ snaps[k].id = CreatedId(r)
              /\ ~snaps'[k].exists

\* C16: two clones running at once on one destination key, over a store that rejects the
\* second Prepare of a key: at most one of them holds a created snapshot, the rejected
\* one touches neither the winner's directory nor its snapshot, and a rollback removes
\* only the snapshot the same request created.
C16_ConcurrentSameKey == [](C16_OneCreator /\ C16_Rejected) /\ [][C16_OwnOnly]_vars

\* both calls were in progress on one key; one created the snapshot, the other was
\* rejected and has returned while the winner's snapshot and copied files are in place
C16_Witness ==
    \E r1, r2 \in Reqs :
        /\ r1 # r2 /\ IsClone(r1) /\ IsClone(r2) /\ req[r1].key = req[r2].key
        /\ ClonedOk(r1) /\ snaps[req[r1].key].id = CreatedId(r1)
        /\ CloneTree(r1) = LayerTree
        /\ Done(r2) /\ PrepareFailed(r2) /\ LastCall(r2).err.kind = "already-exists"
        /\ req[r2].before.nextId = req[r1].before.nextId

----------------------------------------------------------------------------
(* What a clone changes *)

\* C17 (state): at every point of a clone, finished or not, every snapshot but the
\* destination key and every directory that existed before the call are as they were
\* when the call was made; the destination key is as it was, or holds the snapshot this
\* call's Prepare created
C17_Frame ==
    \A r \in Reqs : IsClone(r) =>
        LET b == req[r].before
        IN /\ \A k \in Keys \ {req[r].key} : snaps[k] = b.snaps[k]
           /\ \A i \in Ids : i < b.nextId => dirs[i] = b.dirs[i]
           /\ snaps[req[r].key] # b.snaps[req[r].key] =>
                 /\ Prepared(r) /\ ~b.snaps[req[r].key].exists
                 /\ snaps[req[r].key].id = b.nextId
           /\ Store # b => Prepared(r)

\* C17 (calls): a step of a clone that changes the store's snapshots is a Prepare or a
\* Remove of the destination key on the inner store
C17_Calls ==
    \A r \in Reqs : IsClone(r) /\ StepOf(r) /\ snaps' # snaps =>
        /\ Len(calls'[r]) = Len(calls[r]) + 1
        /\ calls'[r][Len(calls'[r])].op \in {"prepare", "remove"}
        /\ calls'[r][Len(calls'[r])].key = req[r].key

\* C17: a clone, whether it succeeds or fails at any step, leaves every snapshot other
\* than the destination key unchanged, the source's metadata and writable directory
\* included; it changes the store only by the Prepare of the destination key and, after
\* a later failure, the Remove of that key.
C17_OnlyDestination == []C17_Frame /\ [][C17_Calls]_vars

\* a clone of a source with files, on a committed parent, failed in the copy and was
\* rolled back
C17_Witness ==
    \E r \in Reqs :
        /\ Done(r) /\ IsClone(r) /\ CopyFailed(r) /\ Removed(r)
        /\ ~snaps[req[r].key].exists
        /\ Ancestor(r) # NoKey
        /\ \E p \in Paths : SourceTree(r)[p] = File("y")

----------------------------------------------------------------------------
(* A failing option *)

HasFailing(opts) == \E i \in 1..Len(opts) : opts[i].kind = "fail"
FirstFailing(opts) ==
    CHOOSE i \in 1..Len(opts) : opts[i].kind = "fail" /\ \A j \in 1..(i - 1) : opts[j].kind # "fail"

\* C18: when an option of the caller's sequence fails, Prepare returns that option's
\* error as it is, having applied the options up to and including the failing one and
\* no later one, and having made no call on the inner store: the store and the caller's
\* label map are as they were.
C18_FirstFailureWins ==
    \A r \in Reqs : Done(r) /\ ~Forwarded(r) /\ HasFailing(req[r].opts) =>
        /\ result[r] = [mounts |-> <<>>, err |-> Err("opt-failed", "option failed")]
        /\ calls[r] = <<>>
        /\ ~IsClone(r)
        /\ Store = req[r].before
        /\ callerMap[r] = req[r].cmap
        /\ ApplyOpts(req[r].opts, req[r].cmap).st.applied = FirstFailing(req[r].opts)

\* the first option fails; the second would have set the clone directive of an
\* existing snapshot
C18_Witness ==
    \E r \in Reqs :
        /\ Done(r) /\ Len(req[r].opts) = 2
        /\ req[r].opts[1].kind = "fail" /\ req[r].opts[2].kind = "withLabels"
        /\ HasLabel(req[r].cmap, LabelCloneSource)
        /\ snaps[req[r].cmap[LabelCloneSource]].exists
        /\ snaps[req[r].cmap[LabelCloneSource]].kind = "active"
        /\ calls[r] = <<>> /\ IsErr(result[r].err)

----------------------------------------------------------------------------
(* Cancellation *)

\* C19 (result): a clone whose context was cancelled during the copy returns a
\* canceled-operation error
C19_CanceledError ==
    \A r \in Reqs : Done(r) /\ IsClone(r) /\ loc[r].ctx = "cancelled" =>
        result[r].err.kind = "canceled"

\* C19 (abort): with the context cancelled and entries of the walk left, the next step of
\* the copy copies nothing and ends the walk with a canceled-operation error
C19_AbortBetweenEntries ==
    \A r \in Reqs :
        /\ pc[r] = "walk" /\ loc[r].pending # <<>> /\ loc[r].ctx = "cancelled"
        /\ StepOf(r)
        => /\ dirs' = dirs
           /\ pc'[r] = "rollback"
           /\ loc'[r].err.kind = "canceled"

\* C19: when the caller's context is cancelled while the copy is in progress, the copy
\* checks for it between entries, stops before the remaining entries and the clone
\* returns a canceled-operation error.
C19_CancelStopsCopy == []C19_CanceledError /\ [][C19_AbortBetweenEntries]_vars

----------------------------------------------------------------------------
(* The caller's request *)

\* C20 (map): after a clone the caller's label map holds what it held at the call
C20_CallerMapKept ==
    \A r \in Reqs : Done(r) /\ IsClone(r) => callerMap[r] = req[r].cmap

\* C20 (again): the same options, resolved after the clone has returned, name the same
\* source
C20_ResolvesAgain ==
    \A r \in Reqs : Done(r) /\ IsClone(r) =>
        LET again == ResolveRequest(req[r].opts, callerMap[r])
        IN again.ok /\ again.sourceKey = loc[r].sourceKey

\* C20: a clone Prepare leaves the caller's request as it was: the label map given through
\* the options still holds the clone directive when the call has returned, and the same
\* option sequence in a later Prepare is again a clone of the same source.
C20_RequestUnaltered == C20_CallerMapKept /\ C20_ResolvesAgain

====
